---- MODULE Spec2Model ----
(***************************************************************************)
(* A model of the BPNeuralNetwork engine: the cursor-based doubly linked   *)
(* list (DoublyLinkedList.py), the layer topology built on it              *)
(* (LayerList.py) and the neurode protocol (Neurode.py, FFNeurode.py,      *)
(* BPNeurode.py, FFBPNeurode.py), and the data supply (NNData.py).          *)
(*                                                                         *)
(* Python objects are numbered in allocation order (1, 2, ...); 0 is None. *)
(* Object identity is the number: a Neurode defines no __eq__, so          *)
(* list.index and dict lookup compare identities.                          *)
(*                                                                         *)
(* A float is modelled by the expression the code evaluates to obtain it,  *)
(* a tuple headed by the operation: <<"lit", s>> a literal, <<"rnd", k>>   *)
(* the k-th result of random.random(), <<"add", a, b>>, <<"mul", a, b>>,   *)
(* ...  Two equal expressions denote the same IEEE-754 result, because     *)
(* every operation is a deterministic function of its operands; no         *)
(* algebraic law (associativity, commutativity) is assumed.                *)
(***************************************************************************)
EXTENDS Integers, Sequences, FiniteSets, TLC

(***************************************************************************)
(* Bounds of the exploration.                                              *)
(***************************************************************************)
MaxInputs == 2
MaxOutputs == 2
MaxLayerSize == 2
MaxLayers == 4
MaxSteps == 4
MaxEdits == 3
MaxCalls == 3

MaxNodes == 3

Values == {"a", "b"}

MaxSamples == 2

\* Train factors, in hundredths.
TrainFactors == {-50, 0, 50, 100, 150}

InputValues == {<<"lit", "1">>}
TargetValues == {<<"lit", "1">>}
LearningRates == {<<"lit", "0.05">>, <<"lit", "0.1">>}

(***************************************************************************)
(* Python values.                                                          *)
(***************************************************************************)
None == 0
NoExc == "none"
UPSTREAM == 0
DOWNSTREAM == 1
Side == {UPSTREAM, DOWNSTREAM}

Lit(s) == <<"lit", s>>
Random(k) == <<"rnd", k>>
Add(a, b) == <<"add", a, b>>
Sub(a, b) == <<"sub", a, b>>
Mul(a, b) == <<"mul", a, b>>

VARIABLES
    status,         \* "new" before LayerList(...) runs, then "ready" or "failed"
    head, tail, curr,   \* DoublyLinkedList._head, ._tail, ._curr
    dll,            \* the DLLNode objects: dll[d] = [data, next, prev]
    neurodes,       \* the Neurode objects: neurodes[n] = its fields
    learning_rate,  \* the class attribute Neurode._learning_rate
    rng,            \* how many times random.random() has been called
    raised,         \* the exception the last call raised, or NoExc
    mon,            \* observer of the presentations (history, no effect on the program)
    probe,          \* observer of add_layer followed at once by remove_layer (history)
    edits, calls,   \* how many structural edits / neurode calls ran
    nndata          \* the fields of the NNData object

vars == <<status, head, tail, curr, dll, neurodes, learning_rate, rng,
          raised, mon, probe, edits, calls, nndata>>

(***************************************************************************)
(* DoublyLinkedList.  A list is the record [head, tail, curr, node]; every *)
(* operation returns [list, raised].                                       *)
(***************************************************************************)
DLLNode(data) == [data |-> data, next |-> None, prev |-> None]

EmptyList == [head |-> None, tail |-> None, curr |-> None, node |-> <<>>]

Ok(L) == [list |-> L, raised |-> NoExc]
Fail(L, e) == [list |-> L, raised |-> e]

add_to_head(L, data) ==
    LET new_node == Len(L.node) + 1
        nodes1 == Append(L.node, DLLNode(data))
    IN IF L.head = None
       THEN Ok([head |-> new_node, tail |-> new_node, curr |-> new_node,
                node |-> nodes1])
       ELSE Ok([head |-> new_node, tail |-> L.tail, curr |-> new_node,
                node |-> [nodes1 EXCEPT ![new_node].next = L.head,
                                        ![L.head].prev = new_node]])

\* add_after_current that takes the new node for the tail wherever it goes.
add_after_current_always_tail(L, data) ==
    IF L.curr = None THEN Fail(L, "IndexError")
    ELSE LET new_node == Len(L.node) + 1
             nxt == L.node[L.curr].next
             nodes1 == Append(L.node, [data |-> data, next |-> nxt,
                                       prev |-> L.curr])
             nodes2 == IF nxt # None
                       THEN [nodes1 EXCEPT ![nxt].prev = new_node]
                       ELSE nodes1
         IN Ok([head |-> L.head, tail |-> new_node, curr |-> L.curr,
                node |-> [nodes2 EXCEPT ![L.curr].next = new_node]])

add_after_current(L, data) ==
    IF L.curr = None THEN Fail(L, "IndexError")
    ELSE LET new_node == Len(L.node) + 1
             nxt == L.node[L.curr].next
             nodes1 == Append(L.node, [data |-> data, next |-> nxt,
                                       prev |-> L.curr])
             nodes2 == IF nxt # None
                       THEN [nodes1 EXCEPT ![nxt].prev = new_node]
                       ELSE nodes1
         IN Ok([head |-> L.head,
                tail |-> IF nxt # None THEN L.tail ELSE new_node,
                curr |-> L.curr,
                node |-> [nodes2 EXCEPT ![L.curr].next = new_node]])

remove_after_current(L) ==
    IF L.curr = None \/ L.node[L.curr].next = None THEN Fail(L, "IndexError")
    ELSE LET to_remove == L.node[L.curr].next
             nxt == L.node[to_remove].next
             nodes1 == [L.node EXCEPT ![L.curr].next = nxt]
         IN Ok([head |-> L.head,
                tail |-> IF nxt # None THEN L.tail ELSE L.curr,
                curr |-> L.curr,
                node |-> IF nxt # None
                         THEN [nodes1 EXCEPT ![nxt].prev = L.curr]
                         ELSE nodes1])

reset_to_head(L) == Ok([L EXCEPT !.curr = L.head])

reset_to_tail(L) == Ok([L EXCEPT !.curr = L.tail])

move_forward(L) ==
    IF L.curr = None \/ L.node[L.curr].next = None THEN Fail(L, "IndexError")
    ELSE Ok([L EXCEPT !.curr = L.node[L.curr].next])

\* move_backward that only looks for a cursor.
move_backward_no_boundary(L) ==
    IF L.curr = None THEN Fail(L, "IndexError")
    ELSE Ok([L EXCEPT !.curr = L.node[L.curr].prev])

move_backward(L) ==
    IF L.curr = None \/ L.node[L.curr].prev = None THEN Fail(L, "IndexError")
    ELSE Ok([L EXCEPT !.curr = L.node[L.curr].prev])

\* A normal return of the value v.
Return(L, v) == [list |-> L, raised |-> NoExc, value |-> v]

\* remove_from_head that leaves the tail when the last node goes.
remove_from_head_keeps_tail(L) ==
    IF L.head = None THEN Fail(L, "IndexError")
    ELSE LET old_head == L.head
             nxt == L.node[old_head].next
         IN Return([head |-> nxt, tail |-> L.tail, curr |-> nxt,
                    node |-> IF nxt # None
                             THEN [L.node EXCEPT ![nxt].prev = None]
                             ELSE L.node],
                   L.node[old_head].data)

remove_from_head(L) ==
    IF L.head = None THEN Fail(L, "IndexError")
    ELSE LET old_head == L.head
             nxt == L.node[old_head].next
         IN Return([head |-> nxt,
                    tail |-> IF nxt # None THEN L.tail ELSE None,
                    curr |-> nxt,
                    node |-> IF nxt # None
                             THEN [L.node EXCEPT ![nxt].prev = None]
                             ELSE L.node],
                   L.node[old_head].data)

\* while current: if current.data == data: ...; current = current.next
\* gives the first DLLNode from current that holds data, or None.
RECURSIVE Scan(_, _, _)
Scan(L, current, data) ==
    IF current = None THEN None
    ELSE IF L.node[current].data = data THEN current
    ELSE Scan(L, L.node[current].next, data)

find(L, data) ==
    LET current == Scan(L, L.head, data)
    IN IF current = None THEN Fail(L, "IndexError")
       ELSE Return([L EXCEPT !.curr = current], data)

\* remove that leaves the cursor where it is, on the unlinked node too.
remove_keeps_cursor(L, data) ==
    LET current == Scan(L, L.head, data)
    IN IF current = None THEN Fail(L, "IndexError")
       ELSE LET prv == L.node[current].prev
                nxt == L.node[current].next
                node1 == IF prv # None
                         THEN [L.node EXCEPT ![prv].next = nxt]
                         ELSE L.node
                head1 == IF prv # None THEN L.head ELSE nxt
                node2 == IF nxt # None
                         THEN [node1 EXCEPT ![nxt].prev = prv]
                         ELSE node1
                tail1 == IF nxt # None THEN L.tail ELSE prv
            IN Return([head |-> head1, tail |-> tail1, curr |-> L.curr,
                       node |-> node2],
                      data)

\* remove that forgets to move the head off the node it unlinks.
remove_keeps_head(L, data) ==
    LET current == Scan(L, L.head, data)
    IN IF current = None THEN Fail(L, "IndexError")
       ELSE LET prv == L.node[current].prev
                nxt == L.node[current].next
                node1 == IF prv # None
                         THEN [L.node EXCEPT ![prv].next = nxt]
                         ELSE L.node
                node2 == IF nxt # None
                         THEN [node1 EXCEPT ![nxt].prev = prv]
                         ELSE node1
                tail1 == IF nxt # None THEN L.tail ELSE prv
            IN Return([head |-> L.head, tail |-> tail1,
                       curr |-> IF L.curr = current THEN L.head ELSE L.curr,
                       node |-> node2],
                      data)

remove(L, data) ==
    LET current == Scan(L, L.head, data)
    IN IF current = None THEN Fail(L, "IndexError")
       ELSE LET prv == L.node[current].prev
                nxt == L.node[current].next
                node1 == IF prv # None
                         THEN [L.node EXCEPT ![prv].next = nxt]
                         ELSE L.node
                head1 == IF prv # None THEN L.head ELSE nxt
                node2 == IF nxt # None
                         THEN [node1 EXCEPT ![nxt].prev = prv]
                         ELSE node1
                tail1 == IF nxt # None THEN L.tail ELSE prv
            IN Return([head |-> head1, tail |-> tail1,
                       curr |-> IF L.curr = current THEN head1 ELSE L.curr,
                       node |-> node2],
                      data)

curr_data(L) ==
    IF L.curr = None THEN Fail(L, "IndexError")
    ELSE Return(L, L.node[L.curr].data)

is_empty(L) == L.head = None

(***************************************************************************)
(* The chain as the program can walk it: the DLLNodes from d following     *)
(* next.  fuel stops the walk on a chain that is not a list.               *)
(***************************************************************************)
RECURSIVE Walk(_, _, _)
Walk(L, d, fuel) ==
    IF d = None \/ fuel = 0 THEN <<>>
    ELSE <<d>> \o Walk(L, L.node[d].next, fuel - 1)

Chain(L) == Walk(L, L.head, Len(L.node))

Layers(L) == [i \in 1..Len(Chain(L)) |-> L.node[Chain(L)[i]].data]

(***************************************************************************)
(* Neurode: MultiLinkNode.__init__, Neurode.__init__, BPNeurode.__init__.  *)
(***************************************************************************)
NewNeurode ==
    [reporting_nodes |-> [s \in Side |-> 0],
     reference_value |-> [s \in Side |-> 0],
     neighbors |-> [s \in Side |-> <<>>],
     value |-> Lit("0"),
     weights |-> <<>>,
     delta |-> Lit("0.0")]

\* [neurode_type() for _ in range(n)]: the new objects' numbers.
NewIds(N, n) == [i \in 1..n |-> Len(N) + i]

RECURSIVE Allocate(_, _)
Allocate(N, n) == IF n <= 0 THEN N ELSE Allocate(Append(N, NewNeurode), n - 1)

\* self._weights[node] = v
SetItem(w, k, v) == [x \in (DOMAIN w) \cup {k} |-> IF x = k THEN v ELSE w[x]]

(***************************************************************************)
(* A wiring state is [nodes, rng].                                         *)
(***************************************************************************)
\* _process_new_neighbor that seeds the weight on the wrong side.
_process_new_neighbor_downstream(W, self, node, side) ==
    IF side = DOWNSTREAM
    THEN [nodes |-> [W.nodes EXCEPT ![self].weights =
                        SetItem(W.nodes[self].weights, node, Random(W.rng))],
          rng |-> W.rng + 1]
    ELSE W

_process_new_neighbor(W, self, node, side) ==
    IF side = UPSTREAM
    THEN [nodes |-> [W.nodes EXCEPT ![self].weights =
                        SetItem(W.nodes[self].weights, node, Random(W.rng))],
          rng |-> W.rng + 1]
    ELSE W

\* e, evaluated once x is: a statement starts from the state the statement
\* before it has left.
After(x, e) == IF x = x THEN e ELSE x

RECURSIVE ProcessAll(_, _, _, _, _)
ProcessAll(W, self, nodes, side, i) ==
    IF i > Len(nodes) THEN W
    ELSE LET W1 == _process_new_neighbor(W, self, nodes[i], side)
         IN After(W1, ProcessAll(W1, self, nodes, side, i + 1))

reset_neighbors(W, self, nodes, side) ==
    LET W1 == [W EXCEPT !.nodes[self].neighbors[side] = nodes]
        W2 == After(W1, ProcessAll(W1, self, nodes, side, 1))
    IN After(W2, [W2 EXCEPT !.nodes[self].reference_value[side] =
                                2 ^ Len(nodes) - 1])

RECURSIVE ResetEach(_, _, _, _, _)
ResetEach(W, layer, nodes, side, i) ==
    IF i > Len(layer) THEN W
    ELSE LET W1 == reset_neighbors(W, layer[i], nodes, side)
         IN After(W1, ResetEach(W1, layer, nodes, side, i + 1))

(***************************************************************************)
(* LayerList.                                                              *)
(***************************************************************************)
\* _link_with_next that makes the current layer the DOWNSTREAM side of the
\* next one.
_link_with_next_back_link(W, L) ==
    LET cur == L.node[L.curr].data
        nxt == L.node[L.node[L.curr].next].data
        W1 == ResetEach(W, cur, nxt, DOWNSTREAM, 1)
    IN After(W1, ResetEach(W1, nxt, cur, DOWNSTREAM, 1))

\* _link_with_next that resets the DOWNSTREAM side only.
_link_with_next_downstream_only(W, L) ==
    LET cur == L.node[L.curr].data
        nxt == L.node[L.node[L.curr].next].data
    IN ResetEach(W, cur, nxt, DOWNSTREAM, 1)

_link_with_next(W, L) ==
    LET cur == L.node[L.curr].data
        nxt == L.node[L.node[L.curr].next].data
        W1 == ResetEach(W, cur, nxt, DOWNSTREAM, 1)
    IN After(W1, ResetEach(W1, nxt, cur, UPSTREAM, 1))

\* LayerList.__init__ that builds and wires the two layers before it looks
\* at the counts.
LayerListInit_checks_last(inputs, outputs) ==
    LET input_layer == NewIds(<<>>, inputs)
        N1 == Allocate(<<>>, inputs)
        output_layer == NewIds(N1, outputs)
        N2 == Allocate(N1, outputs)
        L1 == add_to_head(EmptyList, input_layer).list
        L2 == add_after_current(L1, output_layer).list
    IN [list |-> L2,
        W |-> _link_with_next([nodes |-> N2, rng |-> 0], L2),
        raised |-> IF inputs < 1 \/ outputs < 1 THEN "ValueError" ELSE NoExc]

\* LayerList.__init__: the result is [list, W, raised].
LayerListInit(inputs, outputs) ==
    IF inputs < 1 \/ outputs < 1
    THEN [list |-> EmptyList, W |-> [nodes |-> <<>>, rng |-> 0],
          raised |-> "ValueError"]
    ELSE LET input_layer == NewIds(<<>>, inputs)
             N1 == Allocate(<<>>, inputs)
             output_layer == NewIds(N1, outputs)
             N2 == Allocate(N1, outputs)
             L1 == add_to_head(EmptyList, input_layer).list
             L2 == add_after_current(L1, output_layer).list
         IN [list |-> L2,
             W |-> _link_with_next([nodes |-> N2, rng |-> 0], L2),
             raised |-> NoExc]

\* add_layer that links the new layer to the cursor layer only.
add_layer_one_link(L, W, num_nodes) ==
    IF L.curr = L.tail THEN [list |-> L, W |-> W, raised |-> "IndexError"]
    ELSE IF num_nodes < 0 THEN [list |-> L, W |-> W, raised |-> "ValueError"]
    ELSE LET hidden_layer == NewIds(W.nodes, num_nodes)
             W0 == [W EXCEPT !.nodes = Allocate(W.nodes, num_nodes)]
             L1 == add_after_current(L, hidden_layer).list
         IN [list |-> L1, W |-> _link_with_next(W0, L1), raised |-> NoExc]

\* add_layer that puts the layer in before it looks at num_nodes.
add_layer_checks_last(L, W, num_nodes) ==
    IF L.curr = L.tail THEN [list |-> L, W |-> W, raised |-> "IndexError"]
    ELSE LET made == IF num_nodes < 0 THEN 0 ELSE num_nodes
             hidden_layer == NewIds(W.nodes, made)
             W0 == [W EXCEPT !.nodes = Allocate(W.nodes, made)]
             L1 == add_after_current(L, hidden_layer).list
             W1 == After(W0, _link_with_next(W0, L1))
             L2 == move_forward(L1).list
             W2 == After(W1, _link_with_next(W1, L2))
             L3 == move_backward(L2).list
         IN After(W2, [list |-> L3, W |-> W2,
                       raised |-> IF num_nodes < 0 THEN "ValueError"
                                  ELSE NoExc])

\* add_layer that leaves the cursor on the layer it has put in.
add_layer_stays_forward(L, W, num_nodes) ==
    IF L.curr = L.tail THEN [list |-> L, W |-> W, raised |-> "IndexError"]
    ELSE IF num_nodes < 0 THEN [list |-> L, W |-> W, raised |-> "ValueError"]
    ELSE LET hidden_layer == NewIds(W.nodes, num_nodes)
             W0 == [W EXCEPT !.nodes = Allocate(W.nodes, num_nodes)]
             L1 == add_after_current(L, hidden_layer).list
             W1 == After(W0, _link_with_next(W0, L1))
             L2 == move_forward(L1).list
             W2 == After(W1, _link_with_next(W1, L2))
         IN After(W2, [list |-> L2, W |-> W2, raised |-> NoExc])

\* add_layer that looks at num_nodes before it looks at the cursor.
add_layer_size_first(L, W, num_nodes) ==
    IF num_nodes < 0 THEN [list |-> L, W |-> W, raised |-> "ValueError"]
    ELSE IF L.curr = L.tail
    THEN [list |-> L, W |-> W, raised |-> "IndexError"]
    ELSE LET hidden_layer == NewIds(W.nodes, num_nodes)
             W0 == [W EXCEPT !.nodes = Allocate(W.nodes, num_nodes)]
             L1 == add_after_current(L, hidden_layer).list
             W1 == After(W0, _link_with_next(W0, L1))
             L2 == move_forward(L1).list
             W2 == After(W1, _link_with_next(W1, L2))
             L3 == move_backward(L2).list
         IN After(W2, [list |-> L3, W |-> W2, raised |-> NoExc])

add_layer(L, W, num_nodes) ==
    IF L.curr = L.tail THEN [list |-> L, W |-> W, raised |-> "IndexError"]
    ELSE IF num_nodes < 0 THEN [list |-> L, W |-> W, raised |-> "ValueError"]
    ELSE LET hidden_layer == NewIds(W.nodes, num_nodes)
             W0 == [W EXCEPT !.nodes = Allocate(W.nodes, num_nodes)]
             L1 == add_after_current(L, hidden_layer).list
             W1 == After(W0, _link_with_next(W0, L1))
             L2 == move_forward(L1).list
             W2 == After(W1, _link_with_next(W1, L2))
             L3 == move_backward(L2).list
         IN After(W2, [list |-> L3, W |-> W2, raised |-> NoExc])

\* remove_layer that unlinks the layer and rewires nothing.
remove_layer_no_link(L, W) ==
    IF L.curr = L.tail \/ L.node[L.curr].next = L.tail
    THEN [list |-> L, W |-> W, raised |-> "IndexError"]
    ELSE [list |-> remove_after_current(L).list, W |-> W, raised |-> NoExc]

\* remove_layer that raises the exception of a bad size at the boundary.
remove_layer_value_error(L, W) ==
    IF L.curr = L.tail \/ L.node[L.curr].next = L.tail
    THEN [list |-> L, W |-> W, raised |-> "ValueError"]
    ELSE LET L1 == remove_after_current(L).list
         IN [list |-> L1, W |-> _link_with_next(W, L1), raised |-> NoExc]

remove_layer(L, W) ==
    IF L.curr = L.tail \/ L.node[L.curr].next = L.tail
    THEN [list |-> L, W |-> W, raised |-> "IndexError"]
    ELSE LET L1 == remove_after_current(L).list
         IN [list |-> L1, W |-> _link_with_next(W, L1), raised |-> NoExc]

input_nodes(L) == L.node[L.head].data

output_nodes(L) == L.node[L.tail].data

(***************************************************************************)
(* Propagation.  A propagation state is                                    *)
(*   [nodes, exc, learning_rate, fresh, dfresh, adj, reported, early]:     *)
(* nodes and learning_rate are the program's state, exc the exception      *)
(* being raised (it unwinds every caller: no later statement runs), and    *)
(* the rest is history: fresh / dfresh are the nodes whose value / delta   *)
(* was computed in the current presentation, adj the adjust_weights calls  *)
(* of the current backward presentation, reported the <<self, side,        *)
(* node>> for which node has checked in at self on side since self last    *)
(* completed on side, early the <<self, side>> that completed while a      *)
(* neighbour on that side had not reported.                                *)
(***************************************************************************)
Raise(P, e) == [P EXCEPT !.exc = e]

\* list.index(x): the first position (from 0) holding x, -1 when absent
\* (where Python raises ValueError).
Index(seq, x) ==
    IF \E i \in 1..Len(seq) : seq[i] = x
    THEN (CHOOSE i \in 1..Len(seq) :
              seq[i] = x /\ \A j \in 1..(i - 1) : seq[j] # x) - 1
    ELSE -1

\* a | b for a bit b = 1 << k
BitOr(a, k) == IF (a \div (2 ^ k)) % 2 = 1 THEN a ELSE a + 2 ^ k

\* _check_in that takes the report of the last neighbour of the sequence
\* for the last report to arrive.
_check_in_last_neighbour(P, self, node, side) ==
    LET node_index == Index(P.nodes[self].neighbors[side], node)
        reporting == BitOr(P.nodes[self].reporting_nodes[side], node_index)
    IN IF node_index < 0
       THEN [P |-> Raise(P, "ValueError"), complete |-> FALSE]
       ELSE IF node_index = Len(P.nodes[self].neighbors[side]) - 1
       THEN [P |-> [P EXCEPT !.nodes[self].reporting_nodes[side] = 0],
             complete |-> TRUE]
       ELSE [P |-> [P EXCEPT !.nodes[self].reporting_nodes[side] = reporting],
             complete |-> FALSE]

\* Neurode._check_in: the result is [P, complete].
_check_in(P, self, node, side) ==
    LET node_index == Index(P.nodes[self].neighbors[side], node)
        reporting == BitOr(P.nodes[self].reporting_nodes[side], node_index)
    IN IF node_index < 0
       THEN [P |-> Raise(P, "ValueError"), complete |-> FALSE]
       ELSE IF reporting = P.nodes[self].reference_value[side]
       THEN [P |-> [P EXCEPT !.nodes[self].reporting_nodes[side] = 0],
             complete |-> TRUE]
       ELSE [P |-> [P EXCEPT !.nodes[self].reporting_nodes[side] = reporting],
             complete |-> FALSE]

\* _check_in together with the record of who reported.
CheckIn(P, self, node, side) ==
    LET c == _check_in(P, self, node, side)
        nbrs == P.nodes[self].neighbors[side]
        rep == P.reported \cup {<<self, side, node>>}
        missing == \E i \in 1..Len(nbrs) : <<self, side, nbrs[i]>> \notin rep
    IN IF c.P.exc # NoExc THEN c
       ELSE IF c.complete
       THEN [P |-> [c.P EXCEPT
                       !.reported = {r \in rep : ~(r[1] = self /\ r[2] = side)},
                       !.early = IF missing THEN @ \cup {<<self, side>>} ELSE @],
             complete |-> TRUE]
       ELSE [P |-> [c.P EXCEPT !.reported = rep], complete |-> FALSE]

get_weight(P, self, node) ==
    IF node \in DOMAIN P.nodes[self].weights
    THEN P.nodes[self].weights[node]
    ELSE Lit("0")

_sigmoid(value) ==
    <<"div", Lit("1"), Add(Lit("1"), <<"exp", <<"neg", value>>>>)>>

\* sum(get_weight(node) * node.value for node in upstream), from 0
RECURSIVE WeightedSum(_, _, _)
WeightedSum(P, self, i) ==
    IF i = 0 THEN Lit("0")
    ELSE LET node == P.nodes[self].neighbors[UPSTREAM][i]
         IN Add(WeightedSum(P, self, i - 1),
                Mul(get_weight(P, self, node), P.nodes[node].value))

_calculate_value(P, self) ==
    LET ups == P.nodes[self].neighbors[UPSTREAM]
        from_fresh == \A i \in 1..Len(ups) : ups[i] \in P.fresh
    IN [P EXCEPT !.nodes[self].value =
                     _sigmoid(WeightedSum(P, self, Len(ups))),
                 !.fresh = IF from_fresh THEN @ \cup {self} ELSE @ \ {self}]

RECURSIVE data_ready_upstream(_, _, _)
RECURSIVE _fire_downstream(_, _, _)
_fire_downstream(P, self, i) ==
    IF P.exc # NoExc \/ i > Len(P.nodes[self].neighbors[DOWNSTREAM]) THEN P
    ELSE _fire_downstream(
             data_ready_upstream(P, P.nodes[self].neighbors[DOWNSTREAM][i],
                                 self),
             self, i + 1)

data_ready_upstream(P, self, node) ==
    LET c == CheckIn(P, self, node, UPSTREAM)
    IN IF c.P.exc # NoExc \/ ~c.complete THEN c.P
       ELSE _fire_downstream(_calculate_value(c.P, self), self, 1)

set_input(P, self, input_value) ==
    _fire_downstream([P EXCEPT !.nodes[self].value = input_value,
                               !.fresh = @ \cup {self}],
                     self, 1)

_sigmoid_derivative(value) == Mul(value, Sub(Lit("1"), value))

\* weighted_sum = 0.0; weighted_sum += node.delta * node._weights[self]
RECURSIVE DeltaSum(_, _, _)
DeltaSum(P, self, i) ==
    IF i = 0 THEN Lit("0.0")
    ELSE LET node == P.nodes[self].neighbors[DOWNSTREAM][i]
         IN Add(DeltaSum(P, self, i - 1),
                Mul(P.nodes[node].delta, P.nodes[node].weights[self]))

\* _calculate_delta(target_value) of an output node
CalculateDeltaOutput(P, self, target_value) ==
    [P EXCEPT !.nodes[self].delta =
                  Mul(Sub(target_value, P.nodes[self].value),
                      _sigmoid_derivative(P.nodes[self].value)),
              !.dfresh = @ \cup {self}]

\* _calculate_delta() of a hidden node; node._weights[self] raises KeyError
\* when the downstream node holds no weight for self.
CalculateDeltaHidden(P, self) ==
    LET downs == P.nodes[self].neighbors[DOWNSTREAM]
    IN IF \E i \in 1..Len(downs) : self \notin DOMAIN P.nodes[downs[i]].weights
       THEN Raise(P, "KeyError")
       ELSE [P EXCEPT !.nodes[self].delta =
                          Mul(_sigmoid_derivative(P.nodes[self].value),
                              DeltaSum(P, self, Len(downs))),
                      !.dfresh = @ \cup {self}]

\* The literal of BPNeurode._update_weights.
UpdateRate == Lit("0.05")

\* node.adjust_weights(self, adjustment), called by `by` on `self`
adjust_weights(P, self, node, adjustment) ==
    IF node \notin DOMAIN P.nodes[self].weights THEN Raise(P, "KeyError")
    ELSE [P EXCEPT !.nodes[self].weights[node] = Add(@, adjustment),
                   !.adj = Append(@, [by |-> node, on |-> self,
                                      adjustment |-> adjustment,
                                      rate |-> P.learning_rate,
                                      delta |-> P.nodes[self].delta,
                                      value |-> P.nodes[node].value,
                                      delta_done |-> self \in P.dfresh,
                                      by_done |-> node \in P.dfresh,
                                      value_fresh |-> node \in P.fresh])]

RECURSIVE _update_weights(_, _, _)
_update_weights(P, self, i) ==
    IF P.exc # NoExc \/ i > Len(P.nodes[self].neighbors[DOWNSTREAM]) THEN P
    ELSE LET node == P.nodes[self].neighbors[DOWNSTREAM][i]
             adjustment == Mul(Mul(UpdateRate, P.nodes[node].delta),
                               P.nodes[self].value)
         IN _update_weights(adjust_weights(P, node, self, adjustment),
                            self, i + 1)

RECURSIVE data_ready_downstream(_, _, _)
RECURSIVE _fire_upstream(_, _, _)
_fire_upstream(P, self, i) ==
    IF P.exc # NoExc \/ i > Len(P.nodes[self].neighbors[UPSTREAM]) THEN P
    ELSE _fire_upstream(
             data_ready_downstream(P, P.nodes[self].neighbors[UPSTREAM][i],
                                   self),
             self, i + 1)

\* data_ready_downstream that updates the weights first and calculates the
\* delta after it.
data_ready_downstream_update_first(P, self, node) ==
    LET c == CheckIn(P, self, node, DOWNSTREAM)
        P1 == _update_weights(c.P, self, 1)
        P2 == CalculateDeltaHidden(P1, self)
    IN IF c.P.exc # NoExc \/ ~c.complete THEN c.P
       ELSE IF P1.exc # NoExc THEN P1
       ELSE IF P2.exc # NoExc THEN P2
       ELSE _fire_upstream(P2, self, 1)

data_ready_downstream(P, self, node) ==
    LET c == CheckIn(P, self, node, DOWNSTREAM)
        P1 == CalculateDeltaHidden(c.P, self)
        P2 == _fire_upstream(P1, self, 1)
    IN IF c.P.exc # NoExc \/ ~c.complete THEN c.P
       ELSE IF P1.exc # NoExc THEN P1
       ELSE _update_weights(P2, self, 1)

set_expected(P, self, target_value) ==
    _fire_upstream(CalculateDeltaOutput(P, self, target_value), self, 1)

(***************************************************************************)
(* NNData.  The object is the record of its fields.  An optional array is  *)
(* [is_none, array]: None, or the NumPy array np.array(..., dtype=float)   *)
(* made, whose row i (from 0) is array[i + 1].  A row is named by the      *)
(* argument it came from and its index.  An argument of load_data is       *)
(* [is_none, rows, numeric]: None, or a list of `rows` rows that float     *)
(* conversion accepts or not.  A target_set is "TRAIN", "TEST" or "None";  *)
(* every operation returns [data, raised, value].                          *)
(***************************************************************************)
TRAIN == "TRAIN"
TEST == "TEST"
NoSet == "None"
TargetSets == {TRAIN, TEST, NoSet}

STATIC == "STATIC"
SHUFFLE == "SHUFFLE"
Order == {STATIC, SHUFFLE}

NoArray == [is_none |-> TRUE, array |-> <<>>]

\* np.array(arg, dtype=float)
NpArray(name, arg) ==
    [is_none |-> FALSE, array |-> [i \in 1..arg.rows |-> <<name, i - 1>>]]

NoArg == [is_none |-> TRUE, rows |-> 0, numeric |-> TRUE]

ListArg(rows, numeric) == [is_none |-> FALSE, rows |-> rows, numeric |-> numeric]

\* get_one_item's `return None`, and the tuple it returns for an index.
NoItem == <<>>

Item(D, index) == <<D.features.array[index + 1], D.labels.array[index + 1]>>

Min2(a, b) == IF a <= b THEN a ELSE b

Max2(a, b) == IF a >= b THEN a ELSE b

\* min(1, max(0, percentage)), in hundredths
percentage_limiter(percentage) == Min2(100, Max2(0, percentage))

\* The fields as __init__ leaves them before it calls load_data.
NNDataFields(train_factor) ==
    [train_factor |-> percentage_limiter(train_factor),
     train_indices |-> <<>>, test_indices |-> <<>>,
     train_pool |-> <<>>, test_pool |-> <<>>,
     features |-> NoArray, labels |-> NoArray]

NewNNData == NNDataFields(90)

\* The results random.shuffle can leave in a list holding seq.
Shuffles(seq) ==
    {[i \in 1..Len(seq) |-> seq[p[i]]] :
         p \in {q \in [1..Len(seq) -> 1..Len(seq)] :
                    \A i, j \in 1..Len(seq) : q[i] = q[j] => i = j}}

\* list(range(num_samples))
Range(num_samples) == [i \in 1..num_samples |-> i - 1]

\* split_set(new_train_factor); has_factor tells that new_train_factor is
\* not None, shuffled is what random.shuffle leaves in all_indices.
split_set(D, has_factor, new_train_factor, shuffled) ==
    LET D1 == IF has_factor
              THEN [D EXCEPT !.train_factor =
                                 percentage_limiter(new_train_factor)]
              ELSE D
    IN IF D1.features.is_none \/ D1.labels.is_none
       THEN [D1 EXCEPT !.train_indices = <<>>, !.test_indices = <<>>]
       ELSE LET num_samples == Len(D1.features.array)
                num_train == (num_samples * D1.train_factor) \div 100
            IN [D1 EXCEPT
                   !.train_indices = SubSeq(shuffled, 1, num_train),
                   !.test_indices = SubSeq(shuffled, num_train + 1,
                                           num_samples)]

load_data(D, features, labels, shuffled) ==
    LET cleared == [D EXCEPT !.features = NoArray, !.labels = NoArray]
    IN IF features.is_none \/ labels.is_none
       THEN [data |-> split_set(cleared, FALSE, 0, shuffled), raised |-> NoExc]
       ELSE IF features.rows # labels.rows
       THEN [data |-> split_set(cleared, FALSE, 0, shuffled),
             raised |-> "ValueError"]
       ELSE IF ~features.numeric \/ ~labels.numeric
       THEN [data |-> split_set(cleared, FALSE, 0, shuffled),
             raised |-> "ValueError"]
       ELSE [data |-> split_set([D EXCEPT
                                    !.features = NpArray("feature", features),
                                    !.labels = NpArray("label", labels)],
                                FALSE, 0, shuffled),
             raised |-> NoExc]

\* prime_data(target_set, order); train_list / test_list are what
\* random.shuffle leaves in them.
prime_data(D, target_set, order, train_list, test_list) ==
    LET D1 == IF target_set \in {TRAIN, NoSet}
              THEN [D EXCEPT !.train_pool = IF order = SHUFFLE THEN train_list
                                            ELSE D.train_indices]
              ELSE D
    IN IF target_set \in {TEST, NoSet}
       THEN [D1 EXCEPT !.test_pool = IF order = SHUFFLE THEN test_list
                                     ELSE D.test_indices]
       ELSE D1

\* The pool a target_set stands for in get_one_item and pool_is_empty.
PoolOf(target_set) == IF target_set = TEST THEN TEST ELSE TRAIN

Pool(D, target_set) ==
    IF target_set = TEST THEN D.test_pool ELSE D.train_pool

Popped(D, target_set) ==
    IF target_set = TEST THEN [D EXCEPT !.test_pool = Tail(@)]
    ELSE [D EXCEPT !.train_pool = Tail(@)]

\* get_one_item that reads the head of the pool and leaves it there.
get_one_item_peek(D, target_set) ==
    IF D.features.is_none \/ D.labels.is_none
    THEN [data |-> D, raised |-> NoExc, value |-> NoItem]
    ELSE LET pool == Pool(D, target_set)
         IN IF pool = <<>>
            THEN [data |-> D, raised |-> NoExc, value |-> NoItem]
            ELSE LET index == Head(pool)
                 IN IF index + 1 \notin DOMAIN D.features.array
                    THEN [data |-> D, raised |-> "IndexError",
                          value |-> NoItem]
                    ELSE [data |-> D, raised |-> NoExc,
                          value |-> Item(D, index)]

\* get_one_item: features[index] raises IndexError for an index that is not
\* a row of the array, after popleft has taken it from the pool.
get_one_item(D, target_set) ==
    IF D.features.is_none \/ D.labels.is_none
    THEN [data |-> D, raised |-> NoExc, value |-> NoItem]
    ELSE LET pool == Pool(D, target_set)
         IN IF pool = <<>>
            THEN [data |-> D, raised |-> NoExc, value |-> NoItem]
            ELSE LET index == Head(pool)
                     D1 == Popped(D, target_set)
                 IN IF index + 1 \notin DOMAIN D.features.array
                    THEN [data |-> D1, raised |-> "IndexError",
                          value |-> NoItem]
                    ELSE [data |-> D1, raised |-> NoExc,
                          value |-> Item(D, index)]

number_of_samples(D, target_set) ==
    IF target_set = TEST THEN Len(D.test_indices)
    ELSE IF target_set = TRAIN THEN Len(D.train_indices)
    ELSE Len(D.train_indices) + Len(D.test_indices)

pool_is_empty(D, target_set) ==
    IF target_set = TEST THEN Len(D.test_pool) = 0
    ELSE Len(D.train_pool) = 0

(***************************************************************************)
(* The program's state as the records the operations work on.              *)
(***************************************************************************)
TheList == [head |-> head, tail |-> tail, curr |-> curr, node |-> dll]

TheWiring == [nodes |-> neurodes, rng |-> rng]

SetOf(seq) == {seq[i] : i \in 1..Len(seq)}

\* The neurodes of the layers in the list.
TopologyNodes(L) == UNION {SetOf(Layers(L)[i]) : i \in 1..Len(Layers(L))}

AllMasksZero(N, L) ==
    \A n \in TopologyNodes(L) : \A s \in Side : N[n].reporting_nodes[s] = 0

(***************************************************************************)
(* The observer.  A forward presentation is the set_input calls from one   *)
(* that starts it (none running, the node already called, or every input   *)
(* node called) up to the next start; fwd maps the input nodes called to   *)
(* the values given, fwdClean tells that it started with every bitmask of  *)
(* the topology at zero and that no set_expected ran before it was         *)
(* complete, fwdStart is the neurodes when it started.  Likewise bwd,      *)
(* bwdClean (started at zero bitmasks after a complete clean forward       *)
(* presentation) and bwdStart for set_expected.  A structural edit ends    *)
(* both.                                                                   *)
(***************************************************************************)
IdleMon ==
    [fwd |-> <<>>, fwdClean |-> FALSE, fwdStart |-> <<>>,
     bwd |-> <<>>, bwdClean |-> FALSE, bwdStart |-> <<>>,
     fresh |-> {}, dfresh |-> {}, adj |-> <<>>, reported |-> {}, early |-> {}]

\* A structural edit ends the presentations; what has reported stays.
EditedMon(M) == [IdleMon EXCEPT !.reported = M.reported, !.early = M.early]

FwdComplete(M, L) == DOMAIN M.fwd = SetOf(input_nodes(L))

BwdComplete(M, L) == DOMAIN M.bwd = SetOf(output_nodes(L))

Propagation(M) ==
    [nodes |-> neurodes, exc |-> NoExc, learning_rate |-> learning_rate,
     fresh |-> M.fresh, dfresh |-> M.dfresh, adj |-> M.adj,
     reported |-> M.reported, early |-> M.early]

Observed(M, P) == [M EXCEPT !.fresh = P.fresh, !.dfresh = P.dfresh,
                            !.adj = P.adj, !.reported = P.reported,
                            !.early = P.early]

MonSetInput(M, L, n, v) ==
    IF DOMAIN M.fwd = {} \/ n \in DOMAIN M.fwd \/ FwdComplete(M, L)
    THEN LET clean == AllMasksZero(neurodes, L)
         IN [EditedMon(M) EXCEPT
                 !.fwd = SetItem(<<>>, n, v), !.fwdClean = clean,
                 !.fwdStart = IF clean THEN neurodes ELSE <<>>]
    ELSE [M EXCEPT !.fwd = SetItem(@, n, v)]

MonSetExpected(M, L, o, t) ==
    LET M1 == IF FwdComplete(M, L) THEN M
              ELSE [M EXCEPT !.fwdClean = FALSE, !.fwdStart = <<>>]
    IN IF DOMAIN M.bwd = {} \/ o \in DOMAIN M.bwd \/ BwdComplete(M, L)
       THEN LET clean == /\ FwdComplete(M, L)
                         /\ M.fwdClean
                         /\ AllMasksZero(neurodes, L)
            IN [M1 EXCEPT !.bwd = SetItem(<<>>, o, t), !.bwdClean = clean,
                          !.bwdStart = IF clean THEN neurodes ELSE <<>>,
                          !.dfresh = {}, !.adj = <<>>]
       ELSE [M1 EXCEPT !.bwd = SetItem(@, o, t)]

\* probe.phase is "added" right after a successful add_layer, with the
\* list, neurodes and rng it started from, "restored" when a successful
\* remove_layer was the very next call, else "none".
NoProbe == [phase |-> "none", list |-> <<>>, nodes |-> <<>>, rng |-> 0]

(***************************************************************************)
(* Actions: one per call a driver can make.                                *)
(***************************************************************************)
Init ==
    /\ status = "new"
    /\ head = None /\ tail = None /\ curr = None
    /\ dll = <<>>
    /\ neurodes = <<>>
    /\ learning_rate = Lit("0.05")
    /\ rng = 0
    /\ raised = NoExc
    /\ mon = IdleMon
    /\ probe = NoProbe
    /\ edits = 0 /\ calls = 0
    /\ nndata = NewNNData

\* The exploration stops a run after MaxSteps edits and calls.
CanEdit == edits < MaxEdits /\ edits + calls < MaxSteps

CanCall == calls < MaxCalls /\ edits + calls < MaxSteps

SetList(L) ==
    /\ head' = L.head /\ tail' = L.tail /\ curr' = L.curr /\ dll' = L.node

\* LayerList(inputs, outputs, FFBPNeurode)
Construct(inputs, outputs) ==
    /\ status = "new"
    /\ LET r == LayerListInit(inputs, outputs)
       IN /\ SetList(r.list)
          /\ neurodes' = r.W.nodes
          /\ rng' = r.W.rng
          /\ status' = IF r.raised = NoExc THEN "ready" ELSE "failed"
          /\ raised' = r.raised
    /\ probe' = NoProbe
    /\ UNCHANGED <<nndata, learning_rate, mon, edits, calls>>

AddLayer(num_nodes) ==
    /\ status = "ready"
    /\ LET r == add_layer(TheList, TheWiring, num_nodes)
       IN /\ r.raised = NoExc => /\ CanEdit
                                 /\ Len(Chain(TheList)) < MaxLayers
          /\ probe' = IF r.raised = NoExc
                      THEN [phase |-> "added", list |-> TheList,
                            nodes |-> neurodes, rng |-> rng]
                      ELSE NoProbe
          /\ SetList(r.list)
          /\ neurodes' = r.W.nodes
          /\ rng' = r.W.rng
          /\ raised' = r.raised
          /\ mon' = IF r.raised = NoExc THEN EditedMon(mon) ELSE mon
          /\ edits' = IF r.raised = NoExc THEN edits + 1 ELSE edits
    /\ UNCHANGED <<nndata, status, learning_rate, calls>>

RemoveLayer ==
    /\ status = "ready"
    /\ LET r == remove_layer(TheList, TheWiring)
       IN /\ r.raised = NoExc => CanEdit
          /\ probe' = IF r.raised = NoExc /\ probe.phase = "added"
                      THEN [probe EXCEPT !.phase = "restored"]
                      ELSE NoProbe
          /\ SetList(r.list)
          /\ neurodes' = r.W.nodes
          /\ rng' = r.W.rng
          /\ raised' = r.raised
          /\ mon' = IF r.raised = NoExc THEN EditedMon(mon) ELSE mon
          /\ edits' = IF r.raised = NoExc THEN edits + 1 ELSE edits
    /\ UNCHANGED <<nndata, status, learning_rate, calls>>

Navigate(r) ==
    /\ status = "ready"
    /\ SetList(r.list)
    /\ raised' = r.raised
    /\ probe' = NoProbe
    /\ UNCHANGED <<nndata, status, neurodes, learning_rate, rng, mon, edits, calls>>

ResetToHead == Navigate(reset_to_head(TheList))

ResetToTail == Navigate(reset_to_tail(TheList))

MoveForward == Navigate(move_forward(TheList))

MoveBackward == Navigate(move_backward(TheList))

\* some_node.learning_rate = rate
SetLearningRate(rate) ==
    /\ status = "ready"
    /\ CanCall
    /\ learning_rate # rate
    /\ learning_rate' = rate
    /\ raised' = NoExc
    /\ probe' = NoProbe
    /\ calls' = calls + 1
    /\ UNCHANGED <<nndata, status, head, tail, curr, dll, neurodes, rng, mon, edits>>

\* input_nodes[i].set_input(input_value)
SetInput(n, input_value) ==
    /\ status = "ready"
    /\ CanCall
    /\ n \in SetOf(input_nodes(TheList))
    /\ LET M == MonSetInput(mon, TheList, n, input_value)
           P == set_input(Propagation(M), n, input_value)
       IN /\ neurodes' = P.nodes
          /\ mon' = Observed(M, P)
          /\ raised' = P.exc
    /\ calls' = calls + 1
    /\ probe' = NoProbe
    /\ UNCHANGED <<nndata, status, head, tail, curr, dll, learning_rate, rng, edits>>

\* output_nodes[i].set_expected(target_value)
SetExpected(n, target_value) ==
    /\ status = "ready"
    /\ CanCall
    /\ n \in SetOf(output_nodes(TheList))
    /\ LET M == MonSetExpected(mon, TheList, n, target_value)
           P == set_expected(Propagation(M), n, target_value)
       IN /\ neurodes' = P.nodes
          /\ mon' = Observed(M, P)
          /\ raised' = P.exc
    /\ calls' = calls + 1
    /\ probe' = NoProbe
    /\ UNCHANGED <<nndata, status, head, tail, curr, dll, learning_rate, rng, edits>>

Next ==
    \/ \E i \in 0..MaxInputs, o \in 0..MaxOutputs : Construct(i, o)
    \/ \E k \in (-1)..MaxLayerSize : AddLayer(k)
    \/ RemoveLayer
    \/ ResetToHead
    \/ ResetToTail
    \/ MoveForward
    \/ MoveBackward
    \/ \E r \in LearningRates : SetLearningRate(r)
    \/ \E n \in 1..Len(neurodes), v \in InputValues : SetInput(n, v)
    \/ \E n \in 1..Len(neurodes), t \in TargetValues : SetExpected(n, t)

Spec == Init /\ [][Next]_vars

(***************************************************************************)
(* A plain DoublyLinkedList: one action per call a driver can make on it.  *)
(* status is "list" once DoublyLinkedList() has run.  probe records the    *)
(* calls find(v), remove(v), find(v) made one right after the other: phase *)
(* tells how far they have got, value is v, found that the find just made  *)
(* returned normally, now how many times the list held v when it was       *)
(* called, count the same for the first find of the three.                 *)
(***************************************************************************)
\* How many DLLNodes of the chain hold data.
Count(L, data) ==
    Cardinality({i \in 1..Len(Chain(L)) : L.node[Chain(L)[i]].data = data})

\* DoublyLinkedList()
NewList ==
    /\ status = "new"
    /\ status' = "list"
    /\ SetList(EmptyList)
    /\ raised' = NoExc
    /\ probe' = NoProbe
    /\ UNCHANGED <<nndata, neurodes, learning_rate, rng, mon, edits, calls>>

\* A call on the list that returns r and is none of the three calls
\* probe follows.
ListCall(r) ==
    /\ status = "list"
    /\ SetList(r.list)
    /\ raised' = r.raised
    /\ probe' = NoProbe
    /\ UNCHANGED <<nndata, status, neurodes, learning_rate, rng, mon, edits, calls>>

ListAddToHead(data) ==
    /\ Len(dll) < MaxNodes
    /\ ListCall(add_to_head(TheList, data))

ListAddAfterCurrent(data) ==
    /\ Len(dll) < MaxNodes
    /\ ListCall(add_after_current(TheList, data))

ListRemoveFromHead == ListCall(remove_from_head(TheList))

ListRemoveAfterCurrent == ListCall(remove_after_current(TheList))

ListResetToHead == ListCall(reset_to_head(TheList))

ListResetToTail == ListCall(reset_to_tail(TheList))

ListMoveForward == ListCall(move_forward(TheList))

ListMoveBackward == ListCall(move_backward(TheList))

ListCurrData == ListCall(curr_data(TheList))

ListFind(data) ==
    /\ status = "list"
    /\ LET r == find(TheList, data)
           third == probe.phase = "find-remove" /\ probe.value = data
       IN /\ SetList(r.list)
          /\ raised' = r.raised
          /\ probe' = IF third \/ r.raised = NoExc
                      THEN [phase |-> IF third THEN "find-remove-find"
                                      ELSE "find",
                            value |-> data,
                            found |-> r.raised = NoExc,
                            now |-> Count(TheList, data),
                            count |-> IF third THEN probe.count
                                      ELSE Count(TheList, data)]
                      ELSE NoProbe
    /\ UNCHANGED <<nndata, status, neurodes, learning_rate, rng, mon, edits, calls>>

ListRemove(data) ==
    /\ status = "list"
    /\ LET r == remove(TheList, data)
           second == /\ probe.phase \in {"find", "find-remove-find"}
                     /\ probe.value = data
                     /\ probe.found
       IN /\ SetList(r.list)
          /\ raised' = r.raised
          /\ probe' = IF second
                      THEN [phase |-> "find-remove", value |-> data,
                            found |-> FALSE, now |-> 0,
                            count |-> probe.now]
                      ELSE NoProbe
    /\ UNCHANGED <<nndata, status, neurodes, learning_rate, rng, mon, edits, calls>>

ListNext ==
    \/ NewList
    \/ \E v \in Values : ListAddToHead(v)
    \/ \E v \in Values : ListAddAfterCurrent(v)
    \/ ListRemoveFromHead
    \/ ListRemoveAfterCurrent
    \/ ListResetToHead
    \/ ListResetToTail
    \/ ListMoveForward
    \/ ListMoveBackward
    \/ ListCurrData
    \/ \E v \in Values : ListFind(v)
    \/ \E v \in Values : ListRemove(v)

ListSpec == Init /\ [][ListNext]_vars

\* A program that makes a LayerList or a plain DoublyLinkedList.
EngineNext == Next \/ ListNext

EngineSpec == Init /\ [][EngineNext]_vars

(***************************************************************************)
(* An NNData object: one action per call a driver can make on it.  status  *)
(* is "data" once NNData(...) has returned.  probe records what            *)
(* get_one_item returns: last is the value of the latest call; a set is in *)
(* primed from a prime_data of it on loaded data until the next load_data  *)
(* or split_set, order is the order it was primed in and returns the       *)
(* values get_one_item has returned for it since (one `None` at most).     *)
(***************************************************************************)
DataSets == {TRAIN, TEST}

Watch ==
    [phase |-> "data", primed |-> {},
     order |-> [s \in DataSets |-> STATIC],
     returns |-> [s \in DataSets |-> <<>>],
     last |-> NoItem]

\* The (features, labels) arguments a driver gives load_data.
LoadArgs ==
    {<<NoArg, NoArg>>, <<ListArg(1, TRUE), NoArg>>,
     <<ListArg(1, TRUE), ListArg(0, TRUE)>>,
     <<ListArg(1, FALSE), ListArg(1, TRUE)>>}
        \cup {<<ListArg(n, TRUE), ListArg(n, TRUE)>> : n \in 0..MaxSamples}

Loaded(D) == ~D.features.is_none /\ ~D.labels.is_none

\* NNData(features, labels, train_factor)
NewData(args, train_factor, shuffled) ==
    /\ status = "new"
    /\ LET r == load_data(NNDataFields(train_factor), args[1], args[2],
                          shuffled)
       IN /\ nndata' = r.data
          /\ raised' = r.raised
          /\ status' = IF r.raised = NoExc THEN "data" ELSE "failed"
    /\ probe' = Watch
    /\ UNCHANGED <<head, tail, curr, dll, neurodes, learning_rate, rng, mon,
                   edits, calls>>

LoadData(args, shuffled) ==
    /\ status = "data"
    /\ LET r == load_data(nndata, args[1], args[2], shuffled)
       IN /\ nndata' = r.data
          /\ raised' = r.raised
    /\ probe' = Watch
    /\ UNCHANGED <<status, head, tail, curr, dll, neurodes, learning_rate,
                   rng, mon, edits, calls>>

SplitSet(has_factor, new_train_factor, shuffled) ==
    /\ status = "data"
    /\ nndata' = split_set(nndata, has_factor, new_train_factor, shuffled)
    /\ raised' = NoExc
    /\ probe' = Watch
    /\ UNCHANGED <<status, head, tail, curr, dll, neurodes, learning_rate,
                   rng, mon, edits, calls>>

PrimeData(target_set, order, train_list, test_list) ==
    /\ status = "data"
    /\ nndata' = prime_data(nndata, target_set, order, train_list, test_list)
    /\ raised' = NoExc
    /\ LET done == IF target_set = NoSet THEN DataSets ELSE {target_set}
       IN probe' = [probe EXCEPT
                       !.primed = IF Loaded(nndata) THEN @ \cup done
                                  ELSE @ \ done,
                       !.order = [s \in DataSets |->
                                      IF s \in done THEN order ELSE @[s]],
                       !.returns = [s \in DataSets |->
                                        IF s \in done THEN <<>> ELSE @[s]]]
    /\ UNCHANGED <<status, head, tail, curr, dll, neurodes, learning_rate,
                   rng, mon, edits, calls>>

GetOneItem(target_set) ==
    /\ status = "data"
    /\ LET r == get_one_item(nndata, target_set)
           s == PoolOf(target_set)
           got == probe.returns[s]
           again == got # <<>> /\ got[Len(got)] = NoItem /\ r.value = NoItem
       IN /\ nndata' = r.data
          /\ raised' = r.raised
          /\ probe' = [probe EXCEPT
                          !.last = r.value,
                          !.returns[s] = IF s \in probe.primed /\ ~again
                                         THEN Append(@, r.value) ELSE @]
    /\ UNCHANGED <<status, head, tail, curr, dll, neurodes, learning_rate,
                   rng, mon, edits, calls>>

DataNext ==
    \/ \E a \in LoadArgs, f \in TrainFactors :
           \E sh \in Shuffles(Range(a[1].rows)) : NewData(a, f, sh)
    \/ \E a \in LoadArgs :
           \E sh \in Shuffles(Range(a[1].rows)) : LoadData(a, sh)
    \/ \E sh \in Shuffles(Range(Len(nndata.features.array))) :
           \/ SplitSet(FALSE, 0, sh)
           \/ \E f \in TrainFactors : SplitSet(TRUE, f, sh)
    \/ \E t \in TargetSets, o \in Order :
           \E tr \in Shuffles(nndata.train_indices),
              te \in Shuffles(nndata.test_indices) : PrimeData(t, o, tr, te)
    \/ \E t \in TargetSets : GetOneItem(t)

DataSpec == Init /\ [][DataNext]_vars

(***************************************************************************)
(* Properties.                                                             *)
(***************************************************************************)
Ready == status = "ready"

InputSet == SetOf(input_nodes(TheList))

OutputSet == SetOf(output_nodes(TheList))

\* The pairs (i upstream, j downstream) of nodes in adjacent layers.
AdjacentPairs ==
    LET Ls == Layers(TheList)
    IN UNION {SetOf(Ls[k]) \X SetOf(Ls[k + 1]) : k \in 1..(Len(Ls) - 1)}

\* A propagation state on the neurodes N with an empty history.
Reference(N) ==
    [nodes |-> N, exc |-> NoExc, learning_rate |-> learning_rate,
     fresh |-> {}, dfresh |-> {}, adj |-> <<>>, reported |-> {}, early |-> {}]

\* set_input on the nodes of order, in that order, with the values vals.
RECURSIVE RunInputs(_, _, _, _)
RunInputs(P, order, vals, k) ==
    IF k > Len(order) THEN P
    ELSE RunInputs(set_input(P, order[k], vals[order[k]]), order, vals, k + 1)

\* set_expected on the nodes of order, in that order, with the targets vals.
RECURSIVE RunTargets(_, _, _, _)
RunTargets(P, order, vals, k) ==
    IF k > Len(order) THEN P
    ELSE RunTargets(set_expected(P, order[k], vals[order[k]]), order, vals,
                    k + 1)

\* C1: once a forward presentation that started with every bitmask at zero
\* has called set_input on every input node, every non-input node of the
\* topology has recomputed its value in this presentation from values of
\* this presentation of all its upstream neighbours.
C1_ForwardReachesEveryNode ==
    (Ready /\ FwdComplete(mon, TheList) /\ mon.fwdClean) =>
        \A n \in TopologyNodes(TheList) \ InputSet : n \in mon.fresh

\* C2: when a backward presentation (set_expected once on every output node
\* after a complete forward presentation) is complete, for every pair of
\* adjacent-layer nodes (i upstream, j downstream) the weight j holds for i
\* was adjusted exactly once, by i, when j's delta of this presentation was
\* computed and i's value was the one of this presentation.
C2_EachWeightAdjustedOnce ==
    (Ready /\ BwdComplete(mon, TheList) /\ mon.bwdClean) =>
        \A e \in AdjacentPairs :
            LET rs == {k \in 1..Len(mon.adj) :
                          mon.adj[k].by = e[1] /\ mon.adj[k].on = e[2]}
            IN /\ Cardinality(rs) = 1
               /\ \A k \in rs : mon.adj[k].delta_done /\ mon.adj[k].value_fresh

\* C3: in every state of a constructed topology, every node's DOWNSTREAM
\* neighbours are exactly the nodes of the next layer and its UPSTREAM
\* neighbours exactly the nodes of the previous layer (none at the ends).
C3_FullBipartiteWiring ==
    Ready =>
        LET Ls == Layers(TheList)
        IN \A i \in 1..Len(Ls) : \A n \in SetOf(Ls[i]) :
               /\ SetOf(neurodes[n].neighbors[DOWNSTREAM]) =
                      (IF i < Len(Ls) THEN SetOf(Ls[i + 1]) ELSE {})
               /\ SetOf(neurodes[n].neighbors[UPSTREAM]) =
                      (IF i > 1 THEN SetOf(Ls[i - 1]) ELSE {})

C3_Witness ==
    Ready /\ Len(Layers(TheList)) = 4 /\ raised = "IndexError"

\* C4: a constructed topology always has at least 2 layers, its head is the
\* input layer and its tail the output layer the constructor created (the
\* first two DLLNodes, holding the first neurodes), the tail being the end
\* of the chain from the head.
C4_InputAndOutputLayerKept ==
    Ready =>
        LET ch == Chain(TheList)
            ni == Len(input_nodes(TheList))
            no == Len(output_nodes(TheList))
        IN /\ Len(ch) >= 2
           /\ head = 1 /\ tail = 2
           /\ ch[1] = head /\ ch[Len(ch)] = tail
           /\ ni >= 1 /\ no >= 1
           /\ input_nodes(TheList) = [k \in 1..ni |-> k]
           /\ output_nodes(TheList) = [k \in 1..no |-> ni + k]

C4_Witness ==
    Ready /\ edits = 2 /\ Len(dll) = 3 /\ Len(Chain(TheList)) = 2

\* random.random() returns a float in [0.0, 1.0): a weight is in that range
\* when it is a result of random.random() itself.
InUnitInterval(w) == w[1] = "rnd"

\* C5: when a forward presentation that started at zero bitmasks is complete
\* (and no set_expected has run since it started), every node's value is the
\* one the calls give when made in the order of input_nodes from the same
\* start: the order of the calls does not matter.
C5_ForwardOrderIndependent ==
    (Ready /\ FwdComplete(mon, TheList) /\ mon.fwdClean /\ DOMAIN mon.bwd = {})
    =>  LET ref == RunInputs(Reference(mon.fwdStart), input_nodes(TheList),
                             mon.fwd, 1)
        IN \A n \in 1..Len(neurodes) : neurodes[n].value = ref.nodes[n].value

C5_Witness ==
    /\ Ready /\ FwdComplete(mon, TheList) /\ mon.fwdClean
    /\ DOMAIN mon.bwd = {}
    /\ Len(input_nodes(TheList)) = 2
    /\ Len(Layers(TheList)) = 3
    /\ \A n \in TopologyNodes(TheList) : n \in mon.fresh

\* C6: when a backward presentation that started at zero bitmasks after a
\* complete forward presentation is complete, the neurodes (deltas, weights,
\* bitmasks) are those the calls give when made in the order of output_nodes
\* from the same start: the order of the calls does not matter.
C6_BackwardOrderIndependent ==
    (Ready /\ BwdComplete(mon, TheList) /\ mon.bwdClean)
    =>  neurodes = RunTargets(Reference(mon.bwdStart), output_nodes(TheList),
                              mon.bwd, 1).nodes

C6_Witness ==
    /\ Ready /\ BwdComplete(mon, TheList) /\ mon.bwdClean
    /\ Len(output_nodes(TheList)) = 2
    /\ Len(Layers(TheList)) = 3
    /\ Len(mon.adj) >= 3

\* C7: every adjustment a backward pass adds to a weight is
\* learning_rate * delta_j * value_i with the shared learning rate as it
\* stands when the update runs.
C7_AdjustmentUsesLearningRate ==
    \A k \in 1..Len(mon.adj) :
        mon.adj[k].adjustment =
            Mul(Mul(mon.adj[k].rate, mon.adj[k].delta), mon.adj[k].value)

\* C8: when remove_layer follows a successful add_layer at once, the list has
\* the layers it had before the two calls, in the same order, with the cursor
\* on the same layer; every node of the cursor layer and of the layer after
\* it has the neighbour sequences it had; and the weight each node of the
\* latter holds for each node of the cursor layer was drawn after the first
\* call began (it is not the prior value).
C8_AddThenRemoveRestoresWiring ==
    probe.phase = "restored" =>
        LET L0 == probe.list
            cur == L0.node[L0.curr].data
            nxt == L0.node[L0.node[L0.curr].next].data
        IN /\ Layers(TheList) = Layers(L0)
           /\ curr = L0.curr
           /\ \A n \in SetOf(cur) \cup SetOf(nxt) :
                  neurodes[n].neighbors = probe.nodes[n].neighbors
           /\ \A f \in SetOf(nxt) : \A c \in SetOf(cur) :
                  /\ c \in DOMAIN neurodes[f].weights
                  /\ \E k \in probe.rng..(rng - 1) :
                         neurodes[f].weights[c] = Random(k)
                  /\ neurodes[f].weights[c] # probe.nodes[f].weights[c]

C8_Witness ==
    /\ probe.phase = "restored"
    /\ Len(Layers(TheList)) = 3
    /\ curr # head

\* What one _check_in call does, for every neighbour of every node of the
\* topology in the current state: it sets the bit at the neighbour's index,
\* answers true exactly when the bitmask then equals the reference value,
\* and leaves zero in that case.
CheckInContract ==
    Ready =>
        \A self \in TopologyNodes(TheList) : \A side \in Side :
            \A i \in 1..Len(neurodes[self].neighbors[side]) :
                LET node == neurodes[self].neighbors[side][i]
                    before == neurodes[self].reporting_nodes[side]
                    c == _check_in(Reference(neurodes), self, node, side)
                    after == c.P.nodes[self].reporting_nodes[side]
                    with_bit == BitOr(before, i - 1)
                IN /\ c.complete <=>
                          with_bit = neurodes[self].reference_value[side]
                   /\ after = IF c.complete THEN 0 ELSE with_bit
                   /\ c.P.nodes = [neurodes EXCEPT
                                      ![self].reporting_nodes[side] = after]

\* C9: _check_in sets exactly the bit of the reporting node's index, answers
\* true iff the bitmask then equals the reference value and resets it in
\* that case; so no node completes on a side while a neighbour on that side
\* has not reported since the node's last completion.
C9_CompletesOnlyWhenAllReported ==
    CheckInContract /\ mon.early = {}

\* The topology LayerList(i, o, ...) yields.
Constructed(i, o) ==
    LET Ls == Layers(TheList)
    IN /\ Len(Ls) = 2
       /\ head # tail
       /\ dll[head].data = Ls[1] /\ dll[tail].data = Ls[2]
       /\ Len(Ls[1]) = i /\ Len(Ls[2]) = o
       /\ Cardinality(SetOf(Ls[1]) \cup SetOf(Ls[2])) = i + o
       /\ \A n \in SetOf(Ls[1]) :
              SetOf(neurodes[n].neighbors[DOWNSTREAM]) = SetOf(Ls[2])
       /\ \A n \in SetOf(Ls[2]) :
              /\ SetOf(neurodes[n].neighbors[UPSTREAM]) = SetOf(Ls[1])
              /\ \A u \in SetOf(Ls[1]) :
                     /\ u \in DOMAIN neurodes[n].weights
                     /\ InUnitInterval(neurodes[n].weights[u])

\* C10: LayerList(i, o, ...) with i >= 1 and o >= 1 yields exactly 2 layers,
\* i input nodes at the head and o output nodes at the tail, each input node
\* with exactly the output nodes DOWNSTREAM, each output node with exactly
\* the input nodes UPSTREAM and holding a weight in [0,1) for each of them.
C10_Construction ==
    [][\A i \in 1..MaxInputs, o \in 1..MaxOutputs :
           Construct(i, o) => Constructed(i, o)']_vars

C10_Witness ==
    /\ Ready /\ edits = 0 /\ calls = 0
    /\ Len(input_nodes(TheList)) = 2 /\ Len(output_nodes(TheList)) = 2
    /\ Constructed(2, 2)

(***************************************************************************)
(* Structural edits: what they raise and what they change.                 *)
(***************************************************************************)
\* The place (from 1) of DLLNode d in the chain of L, 0 when it is not there.
Place(L, d) == Index(Chain(L), d) + 1

\* seq with x put in after place p / seq without the element at place p.
InsertAfter(seq, p, x) ==
    SubSeq(seq, 1, p) \o <<x>> \o SubSeq(seq, p + 1, Len(seq))

Without(seq, p) == SubSeq(seq, 1, p - 1) \o SubSeq(seq, p + 1, Len(seq))

\* What add_layer(k) has done when it returns at the end of a step: the
\* layers are the former ones with one layer of k new neurodes put in right
\* after the cursor layer.
Inserted(k) ==
    LET p == Place(TheList, curr)
        new_layer == [j \in 1..k |-> Len(neurodes) + j]
    IN /\ raised' = NoExc
       /\ Len(neurodes') = Len(neurodes) + k
       /\ Layers(TheList)' = InsertAfter(Layers(TheList), p, new_layer)
       /\ Len(Chain(TheList)') = Len(Chain(TheList)) + 1

\* What every step of add_layer shows: it raised, or it returned normally
\* and was the last call.
AfterAddLayer == raised' # NoExc \/ probe'.phase = "added"

\* C12: add_layer(size) raises IndexError whenever the cursor is on the
\* tail, whatever the size; raises ValueError when the cursor is not on the
\* tail and size < 0; and otherwise (size = 0 included) returns normally
\* with exactly one new layer of size nodes right after the cursor layer.
C12_AddLayerOutcome ==
    [][AfterAddLayer =>
           \A k \in (-1)..MaxLayerSize :
               AddLayer(k) =>
                   IF curr = tail THEN raised' = "IndexError"
                   ELSE IF k < 0 THEN raised' = "ValueError"
                   ELSE Inserted(k)]_vars

C12_Witness ==
    /\ Ready /\ probe.phase = "added" /\ raised = NoExc
    /\ curr # head
    /\ dll[dll[curr].next].data = <<>>

\* What remove_layer has done when it returns at the end of a step: the
\* layers are the former ones without the layer after the cursor layer,
\* which was neither the first nor the last.
Removed ==
    LET p == Place(TheList, curr)
    IN /\ 1 < p + 1 /\ p + 1 < Len(Chain(TheList))
       /\ Layers(TheList)' = Without(Layers(TheList), p + 1)
       /\ Len(neurodes') = Len(neurodes)

\* C13: remove_layer raises IndexError if and only if the cursor is on the
\* tail or the layer after the cursor is the tail, so always on 2 layers;
\* otherwise it returns normally having removed exactly the layer after the
\* cursor, a hidden layer.
C13_RemoveLayerOutcome ==
    [][RemoveLayer =>
           /\ raised' \in {"IndexError", NoExc}
           /\ raised' = "IndexError" <=>
                  (curr = tail \/ dll[curr].next = tail)
           /\ Len(Chain(TheList)) = 2 => raised' = "IndexError"
           /\ raised' = NoExc => Removed]_vars

C13_Witness ==
    /\ Ready /\ raised = NoExc /\ probe.phase # "added"
    /\ Len(dll) = 4 /\ Len(Chain(TheList)) = 3
    /\ edits = 3

\* C14: LayerList(inputs, outputs, ...) with inputs < 1 or outputs < 1
\* raises ValueError, and when it does the list is empty, no neurode
\* exists and no weight has been drawn.
C14_ConstructionRejected ==
    [][\A i \in 0..MaxInputs, o \in 0..MaxOutputs :
           (Construct(i, o) /\ (i < 1 \/ o < 1)) =>
               /\ raised' = "ValueError"
               /\ status' = "failed"
               /\ head' = None /\ tail' = None /\ curr' = None
               /\ dll' = <<>>
               /\ neurodes' = <<>>
               /\ rng' = 0]_vars

C14_Witness ==
    status = "failed" /\ raised = "ValueError" /\ dll = <<>> /\ neurodes = <<>>

\* The orders in which the nodes of seq can be called, each once.
Orders(seq) ==
    {p \in [1..Len(seq) -> SetOf(seq)] :
         \A i, j \in 1..Len(seq) : p[i] = p[j] => i = j}

\* C15: when a forward presentation is complete (set_input ran once on every
\* input node, with no set_expected and no edit since it started), a second
\* one with the same input values, in any order, leaves every output node
\* with the value it has now.
C15_SecondForwardPassSameOutputs ==
    (Ready /\ FwdComplete(mon, TheList) /\ DOMAIN mon.bwd = {}) =>
        \A order \in Orders(input_nodes(TheList)) :
            LET P == RunInputs(Reference(neurodes), order, mon.fwd, 1)
            IN \A o \in OutputSet : P.nodes[o].value = neurodes[o].value

\* C19: every node of the topology holds a weight only for its current
\* UPSTREAM neighbours, so get_weight gives the default 0 for every other
\* node (those of removed layers and of layers no longer adjacent included).
C19_OnlyUpstreamWeights ==
    Ready =>
        \A n \in TopologyNodes(TheList) :
            \A m \in 1..Len(neurodes) :
                m \notin SetOf(neurodes[n].neighbors[UPSTREAM]) =>
                    /\ m \notin DOMAIN neurodes[n].weights
                    /\ get_weight(Reference(neurodes), n, m) = Lit("0")

\* C20: in every state, on each side of every node of the topology, the
\* reference value is 2^(number of neighbours) - 1 and the reporting bitmask
\* has no bit at or above the number of neighbours (bitmask AND NOT
\* reference value = 0).
C20_BitmaskWithinReference ==
    Ready =>
        \A n \in TopologyNodes(TheList) : \A s \in Side :
            LET k == Len(neurodes[n].neighbors[s])
            IN /\ neurodes[n].reference_value[s] = 2 ^ k - 1
               /\ neurodes[n].reporting_nodes[s] < 2 ^ k

(***************************************************************************)
(* The plain list.                                                         *)
(***************************************************************************)
IsList == status = "list"

\* C11: a call that raises (add_layer, remove_layer, LayerList(...), or a
\* list call: add_after_current, remove_from_head, remove_after_current,
\* move_forward, move_backward, find, remove, curr_data) leaves head, tail,
\* cursor, every DLLNode and every neurode (neighbour sequences, reference
\* values, bitmasks, weights) as they were before the call.  The calls on
\* neurodes (set_input, set_expected) are the steps that count in calls.
C11_RejectedCallChangesNothing ==
    [][(calls' = calls /\ raised' # NoExc) =>
           UNCHANGED <<head, tail, curr, dll, neurodes>>]_vars

C11_Witness ==
    /\ Ready /\ raised = "ValueError"
    /\ Len(Chain(TheList)) = 3
    /\ curr # head
    /\ \E n \in 1..Len(neurodes) : neurodes[n].reporting_nodes[UPSTREAM] # 0

\* C16: after any calls on a DoublyLinkedList, returning or raising:
\* head.prev is None, tail.next is None, n.next.prev is n for every node n
\* reachable from head, tail is the last node reachable from head, and the
\* cursor is None when the list is empty and a node reachable from head
\* otherwise.
C16_ListWellFormed ==
    IsList =>
        LET ch == Chain(TheList)
        IN /\ (head = None) <=> (tail = None)
           /\ head # None => dll[head].prev = None /\ dll[tail].next = None
           /\ Cardinality(SetOf(ch)) = Len(ch)
           /\ \A i \in 1..Len(ch) :
                  dll[ch[i]].next # None => dll[dll[ch[i]].next].prev = ch[i]
           /\ head # None => ch[Len(ch)] = tail
           /\ head = None => curr = None
           /\ head # None => curr \in SetOf(ch)

C16_Witness ==
    /\ IsList /\ Len(dll) = MaxNodes
    /\ Len(Chain(TheList)) = 1
    /\ raised = "IndexError"

\* C17: when find(v) returns, remove(v) is called next and find(v) right
\* after it, the second find raises IndexError.
C17_FindRemoveFind ==
    probe.phase = "find-remove-find" => raised = "IndexError"

\* C17 as it holds: the second find raises IndexError exactly when the list
\* held v once before the three calls; when it held v more than once,
\* remove(v) unlinked its first occurrence only and the second find returns.
C17_FindRemoveFindOnce ==
    probe.phase = "find-remove-find" =>
        /\ raised \in {"IndexError", NoExc}
        /\ raised = "IndexError" <=> probe.count = 1
        /\ probe.now = probe.count - 1

C17_Witness ==
    /\ probe.phase = "find-remove-find"
    /\ probe.count = 1
    /\ raised = "IndexError"
    /\ Len(Chain(TheList)) = 2

\* C18: on a DoublyLinkedList, move_forward raises IndexError iff the cursor
\* is None or on the tail, move_backward iff the cursor is None or on the
\* head, add_after_current and curr_data iff the cursor is None,
\* remove_from_head iff the list is empty, remove_after_current iff the
\* cursor is None or has no next node; each returns normally otherwise.
C18_BoundaryFailures ==
    [][/\ ListMoveForward =>
              /\ raised' \in {"IndexError", NoExc}
              /\ raised' = "IndexError" <=> (curr = None \/ curr = tail)
       /\ ListMoveBackward =>
              /\ raised' \in {"IndexError", NoExc}
              /\ raised' = "IndexError" <=> (curr = None \/ curr = head)
       /\ \A v \in Values : ListAddAfterCurrent(v) =>
              /\ raised' \in {"IndexError", NoExc}
              /\ raised' = "IndexError" <=> curr = None
       /\ ListCurrData =>
              /\ raised' \in {"IndexError", NoExc}
              /\ raised' = "IndexError" <=> curr = None
       /\ ListRemoveFromHead =>
              /\ raised' \in {"IndexError", NoExc}
              /\ raised' = "IndexError" <=> Chain(TheList) = <<>>
       /\ ListRemoveAfterCurrent =>
              /\ raised' \in {"IndexError", NoExc}
              /\ raised' = "IndexError" <=>
                     (curr = None \/ dll[curr].next = None)]_vars

C18_Witness ==
    /\ IsList /\ raised = "IndexError"
    /\ curr = head /\ head # tail
    /\ Len(Chain(TheList)) = 3

(***************************************************************************)
(* Backward presentations, step by step.                                   *)
(***************************************************************************)
\* The step is a set_expected call: a neurode call that leaves the learning
\* rate and the forward presentation and has a backward one running.
BackwardStep ==
    /\ calls' = calls + 1
    /\ learning_rate' = learning_rate
    /\ mon'.fwd = mon.fwd
    /\ mon'.bwd # <<>>

\* The nodes that had computed their delta in the presentation the step
\* belongs to before the step: none when the step starts a presentation.
DoneBefore == IF Cardinality(DOMAIN mon'.bwd) = 1 THEN {} ELSE mon.dfresh

\* The delta _calculate_delta() gives node self from the weights before the
\* step, reading the delta the step leaves for its DOWNSTREAM neighbours in
\* late and the delta from before the step for the others.
DeltaFromWeightsBefore(self, late) ==
    LET P == Reference([n \in 1..Len(neurodes) |->
                           IF n \in late
                           THEN [neurodes[n] EXCEPT !.delta = neurodes'[n].delta]
                           ELSE neurodes[n]])
    IN Mul(_sigmoid_derivative(neurodes[self].value),
           DeltaSum(P, self, Len(neurodes[self].neighbors[DOWNSTREAM])))

\* C21: in every set_expected call of a backward presentation, whatever the
\* layers and the order of the calls: every node that computes its delta in
\* the call computes it from the weights as they were before the call; the
\* weight a node j holds for a node i that has not computed its delta in
\* this presentation is as it was before the call; and every adjustment of
\* the presentation was made by a node that had computed its delta in it.
C21_DeltaBeforeWeightUpdate ==
    [][BackwardStep =>
           /\ \A i \in (mon'.dfresh \ DoneBefore) \ OutputSet :
                  \E late \in SUBSET SetOf(neurodes[i].neighbors[DOWNSTREAM]) :
                      neurodes'[i].delta = DeltaFromWeightsBefore(i, late)
           /\ \A i \in (1..Len(neurodes)) \ mon'.dfresh :
                  \A j \in 1..Len(neurodes) :
                      i \in DOMAIN neurodes[j].weights =>
                          neurodes'[j].weights[i] = neurodes[j].weights[i]
           /\ \A k \in 1..Len(mon'.adj) : mon'.adj[k].by_done]_vars

C21_Witness ==
    /\ Ready /\ raised = NoExc
    /\ Len(Layers(TheList)) = 4
    /\ InputSet \subseteq mon.dfresh
    /\ Len(mon.adj) >= 3
    /\ \A k \in 1..Len(mon.adj) : mon.adj[k].by_done

\* Every link of the topology is known at both ends: each DOWNSTREAM
\* neighbour d of a node n holds a weight for n and has n UPSTREAM, and each
\* UPSTREAM neighbour u of n has n DOWNSTREAM.
LinksKnownAtBothEnds ==
    Ready =>
        \A n \in TopologyNodes(TheList) :
            /\ \A d \in SetOf(neurodes[n].neighbors[DOWNSTREAM]) :
                   /\ n \in DOMAIN neurodes[d].weights
                   /\ n \in SetOf(neurodes[d].neighbors[UPSTREAM])
            /\ \A u \in SetOf(neurodes[n].neighbors[UPSTREAM]) :
                   n \in SetOf(neurodes[u].neighbors[DOWNSTREAM])

\* The step is a neurode call (learning rate, set_input or set_expected).
NeurodeCall == calls' = calls + 1

\* C22: after construction and any add_layer / remove_layer calls, every
\* DOWNSTREAM neighbour d of every node n of the topology holds a weight for
\* n and has n among its UPSTREAM neighbours (and n is DOWNSTREAM of each of
\* its UPSTREAM neighbours); so no set_input or set_expected call raises:
\* neither KeyError (a missing weight) nor ValueError (not a neighbour).
C22_NoMissingWeightOrNeighbour ==
    /\ []LinksKnownAtBothEnds
    /\ [][NeurodeCall => raised' = NoExc]_vars

C22_Witness ==
    /\ Ready /\ raised = NoExc
    /\ edits = 2 /\ calls = 2
    /\ Len(dll) = 3 /\ Len(Chain(TheList)) = 2
    /\ mon.fresh # {} /\ Len(mon.adj) >= 1

(***************************************************************************)
(* The call trees of the firing.  _fire_downstream calls data_ready_upstream*)
(* on each DOWNSTREAM neighbour, which may call _fire_downstream in turn;  *)
(* likewise upstream.  Fired is every node such calls can reach from n and *)
(* FireDepth the longest chain of nested calls, both cut off at fuel       *)
(* nested calls: a chain that reaches the cut-off is one that need not end.*)
(***************************************************************************)
RECURSIVE Fired(_, _, _, _)
Fired(N, n, side, fuel) ==
    IF fuel = 0 THEN {}
    ELSE LET ds == SetOf(N[n].neighbors[side])
         IN ds \cup UNION {Fired(N, d, side, fuel - 1) : d \in ds}

Max(S) == CHOOSE x \in S : \A y \in S : y <= x

RECURSIVE FireDepth(_, _, _, _)
FireDepth(N, n, side, fuel) ==
    IF fuel = 0 \/ N[n].neighbors[side] = <<>> THEN 0
    ELSE 1 + Max({FireDepth(N, d, side, fuel - 1) :
                      d \in SetOf(N[n].neighbors[side])})

\* The nodes of the layers after / before place k of the topology.
LayersAfter(k) ==
    UNION {SetOf(Layers(TheList)[i]) : i \in (k + 1)..Len(Layers(TheList))}

LayersBefore(k) == UNION {SetOf(Layers(TheList)[i]) : i \in 1..(k - 1)}

\* From every node of the topology, the firing can only reach nodes of
\* layers strictly after it (downstream) or strictly before it (upstream),
\* in at most as many nested calls as there are such layers.
FiringBounded ==
    Ready =>
        LET Ls == Layers(TheList)
            fuel == Len(neurodes) + 1
        IN \A k \in 1..Len(Ls) : \A n \in SetOf(Ls[k]) :
               /\ Fired(neurodes, n, DOWNSTREAM, fuel) \subseteq LayersAfter(k)
               /\ FireDepth(neurodes, n, DOWNSTREAM, fuel) <= Len(Ls) - k
               /\ Fired(neurodes, n, UPSTREAM, fuel) \subseteq LayersBefore(k)
               /\ FireDepth(neurodes, n, UPSTREAM, fuel) <= k - 1

\* The nodes of S that the step changes in one of the fields.
Changed(S) == {n \in S : neurodes'[n] # neurodes[n]}

Visited(S, side) ==
    {n \in S : neurodes'[n].reporting_nodes[side] #
                   neurodes[n].reporting_nodes[side]}

\* C23: every set_input and set_expected call on a topology made by
\* construction, add_layer and remove_layer returns: the firing it starts
\* can only reach layers strictly downstream (forward) or strictly upstream
\* (backward) in boundedly many nested calls; the call returns normally; a
\* set_input changes no node outside the topology and no input node but the
\* caller, and checks in at no node on the DOWNSTREAM side; a set_expected
\* changes no node outside the topology, computes the delta of no output
\* node but the caller, and checks in at no output node and at no node on
\* the UPSTREAM side.
C23_PropagationReturns ==
    /\ []FiringBounded
    /\ [][NeurodeCall =>
              /\ raised' = NoExc
              /\ Len(neurodes') = Len(neurodes)
              /\ Changed(1..Len(neurodes)) \subseteq TopologyNodes(TheList)
              /\ IF BackwardStep
                 THEN /\ Cardinality({n \in OutputSet : neurodes'[n].delta #
                                          neurodes[n].delta}) <= 1
                      /\ Visited(OutputSet, DOWNSTREAM) = {}
                      /\ Visited(1..Len(neurodes), UPSTREAM) = {}
                 ELSE /\ Cardinality(Changed(InputSet)) <= 1
                      /\ Visited(1..Len(neurodes), DOWNSTREAM) = {}]_vars

C23_Witness ==
    /\ Ready /\ raised = NoExc
    /\ Len(Layers(TheList)) = 4
    /\ calls = 2 /\ edits = 2
    /\ mon.fwd # <<>> /\ mon.bwd # <<>>
    /\ \E n \in InputSet :
           FireDepth(neurodes, n, DOWNSTREAM, Len(neurodes) + 1) = 3
    /\ \E n \in 1..Len(neurodes) : neurodes[n].reporting_nodes[DOWNSTREAM] # 0

\* The step is a successful add_layer or remove_layer.
StructuralEdit == edits' = edits + 1

\* The nodes a structural edit at the cursor may rewire: those of the cursor
\* layer, of the layer after it before the call (the removed layer, or the
\* layer that follows the inserted one) and of the layer after it after the
\* call (the inserted layer, or the layer that followed the removed one).
Rewired ==
    SetOf(dll[curr].data) \cup SetOf(dll[dll[curr].next].data)
        \cup SetOf(dll'[dll'[curr'].next].data)

\* C24: a successful add_layer or remove_layer leaves the cursor on the
\* layer it was on, and every neurode that is not in the cursor layer, the
\* inserted or removed layer, or the layer following it keeps all its
\* fields (neighbour sequences, reference values, weights included).
C24_EditIsLocal ==
    [][StructuralEdit =>
           /\ curr' = curr
           /\ dll'[curr'].data = dll[curr].data
           /\ \A n \in (1..Len(neurodes)) \ Rewired :
                  neurodes'[n] = neurodes[n]]_vars

C24_Witness ==
    /\ Ready /\ probe.phase = "added"
    /\ Len(Chain(TheList)) = 4
    /\ curr = dll[head].next
    /\ Len(dll[head].data) = 2
    /\ Len(dll[dll[curr].next].data) = 2

(***************************************************************************)
(* find and remove on the plain list.                                      *)
(***************************************************************************)
\* The places of the chain whose DLLNode holds data.
Holding(data) ==
    {i \in 1..Len(Chain(TheList)) : dll[Chain(TheList)[i]].data = data}

\* The first of them.
FirstHolding(data) ==
    CHOOSE i \in Holding(data) : \A j \in Holding(data) : i <= j

\* The i-th DLLNode of a chain, None beyond its end.
At(ch, i) == IF i \in 1..Len(ch) THEN ch[i] ELSE None

\* What remove(data) has done at the end of its step.
RemovedFirst(data) ==
    IF Holding(data) = {}
    THEN /\ raised' = "IndexError"
         /\ UNCHANGED <<head, tail, curr, dll>>
    ELSE LET ch == Chain(TheList)
             p == FirstHolding(data)
             rest == Without(ch, p)
         IN /\ raised' = NoExc
            /\ Chain(TheList)' = rest
            /\ \A d \in SetOf(rest) : dll'[d].data = dll[d].data
            /\ head' = At(rest, 1)
            /\ tail' = At(rest, Len(rest))
            /\ curr' = IF curr = ch[p] THEN head' ELSE curr

\* What find(data) has done at the end of its step.
FoundFirst(data) ==
    IF Holding(data) = {}
    THEN /\ raised' = "IndexError"
         /\ UNCHANGED <<head, tail, curr, dll>>
    ELSE /\ raised' = NoExc
         /\ curr' = Chain(TheList)[FirstHolding(data)]
         /\ UNCHANGED <<head, tail, dll>>

\* C25: remove(value) unlinks the first node from the head that holds value
\* and no other (raising IndexError and changing nothing when there is
\* none); head and tail follow when that node was the head or the tail; the
\* cursor goes to the new head when it was on that node and stays otherwise.
\* find(value) puts the cursor on the first node that holds value, and
\* raises IndexError leaving the cursor when there is none.
C25_RemoveAndFindFirst ==
    [][\A v \in Values :
           /\ ListRemove(v) => RemovedFirst(v)
           /\ ListFind(v) => FoundFirst(v)]_vars

C25_Witness ==
    /\ IsList /\ raised = NoExc
    /\ probe.phase = "find-remove" /\ probe.count = 2
    /\ Len(Chain(TheList)) = 2
    /\ curr = head
    /\ dll[head].data # probe.value

(***************************************************************************)
(* The data supply.                                                        *)
(***************************************************************************)
IsData == status = "data"

Indices(D, s) == IF s = TEST THEN D.test_indices ELSE D.train_indices

\* The train and test index lists hold every row index of the loaded
\* arrays exactly once between them (none when nothing is loaded), and
\* number_of_samples agrees.
IndicesPartition ==
    LET all == nndata.train_indices \o nndata.test_indices
        n == IF Loaded(nndata) THEN Len(nndata.features.array) ELSE 0
    IN /\ Len(all) = n
       /\ SetOf(all) = {i - 1 : i \in 1..n}
       /\ number_of_samples(nndata, TRAIN) + number_of_samples(nndata, TEST)
              = n
       /\ number_of_samples(nndata, NoSet) = n

\* What get_one_item has returned for set s since prime_data(s): the items
\* of the set's indices, each at most once (in index order when STATIC),
\* then None once all of them have been returned; the pool is empty exactly
\* from the last item on.
ReturnsOfPrimed(s) ==
    LET idx == Indices(nndata, s)
        got == probe.returns[s]
        k == Min2(Len(got), Len(idx))
    IN /\ Len(got) <= Len(idx) + 1
       /\ \A j \in 1..k :
              /\ \E i \in SetOf(idx) : got[j] = Item(nndata, i)
              /\ \A h \in 1..k : got[h] = got[j] => h = j
              /\ probe.order[s] = STATIC => got[j] = Item(nndata, idx[j])
       /\ Len(got) = Len(idx) + 1 => got[Len(got)] = NoItem
       /\ pool_is_empty(nndata, s) <=> Len(got) >= Len(idx)
       /\ Len(Pool(nndata, s)) = Len(idx) - k

\* C26: after prime_data(set) on loaded data, the get_one_item(set) calls
\* that follow return each sample of the set exactly once (in the order of
\* the set's index list under STATIC) and then None; pool_is_empty(set) is
\* false until the last of them has been returned and true from then on;
\* the two index lists are disjoint and hold every sample index once, so
\* number_of_samples(TRAIN) + number_of_samples(TEST) is the number of
\* loaded samples.
C26_PrimedSetServedOnce ==
    IsData =>
        /\ IndicesPartition
        /\ \A s \in probe.primed : ReturnsOfPrimed(s)

C26_Witness ==
    /\ IsData /\ raised = NoExc
    /\ TEST \in probe.primed /\ probe.order[TEST] = SHUFFLE
    /\ Len(nndata.test_indices) = 2
    /\ nndata.test_indices[1] = 1
    /\ Len(probe.returns[TEST]) = 3
    /\ probe.returns[TEST][1] = Item(nndata, 0)
    /\ pool_is_empty(nndata, TEST)

\* C27: whenever pool_is_empty(set) is false, the next get_one_item(set)
\* returns normally, with an item (not None) that is a sample of the loaded
\* arrays and whose index is in the current index list of the set.
C27_NonEmptyPoolGivesItem ==
    [][\A t \in TargetSets :
           (GetOneItem(t) /\ ~pool_is_empty(nndata, t)) =>
               /\ raised' = NoExc
               /\ probe'.last # NoItem
               /\ \E i \in SetOf(Indices(nndata', PoolOf(t))) :
                      probe'.last = Item(nndata', i)]_vars

====
